---- MODULE Spec2Model ----
(***************************************************************************)
(* Model of graph_gen (generate.py, utils.py): speed-limit inference,      *)
(* unit normalisation, geometry simplification, place resolution and the   *)
(* generate-graph console script.                                          *)
(*                                                                         *)
(* Python values are records [t, n, k, m, s, l]:                           *)
(*   t  the type name ("int", "float", "str", "bool", "NoneType", "list"), *)
(*      or "absent" for a dictionary key that is not there;                *)
(*   n  the magnitude of a number (bool: 0 or 1);                          *)
(*   k  how many times a float was multiplied by 0.539956803 (kph->kts);   *)
(*   m  how many times a float was multiplied by 0.868976242 (mph->kts);   *)
(*   s  the characters of a str, one one-character string per element;     *)
(*   l  the items of a list, each the characters of a str.                 *)
(* A float n * 0.539956803^k * 0.868976242^m is kept as (n, k, m): the     *)
(* products are exact, so two floats are equal iff the triples are.        *)
(***************************************************************************)
EXTENDS Integers, Sequences, FiniteSets, TLC

VARIABLES
    pc,            \* where the caller, or generate_graph, stands
    bbox,          \* [north, south, east, west]
    arg,           \* the argument of a direct call of spdlim_ox2bs
    ret,           \* what that call raised or returned
    G,             \* the graph object
    G0,            \* history: G as it was when the latest call on it began
    err,           \* the exception the latest call raised, or "none"
    query,         \* the point handed to geolocator.reverse (doubled)
    resp,          \* what the geocoding service answered
    reverseCalls,  \* how many times geolocator.reverse was called
    city,          \* the place name get_city_from_bbox returned
    gpkg,          \* the layers written to graph_comparison.gpkg
    saved,         \* what save_graphml wrote
    completed,     \* history: the stages of generate_graph that returned
    normRuns       \* how many times spd_ox2bs ran on G

vars == <<pc, bbox, arg, ret, G, G0, err, query, resp, reverseCalls, city,
          gpkg, saved, completed, normRuns>>

----------------------------------------------------------------------------
(* Bounds of the model.                                                    *)

MaxParts == 2
MaxEdgesInfer == 4
MaxEdgesNorm == 2
MaxEdgesSimplify == 2
MaxEdgesBody == 2
MaxNormRuns == 2
MaxCoord == 2

----------------------------------------------------------------------------
(* Python values.                                                          *)

PyVal(t, n, k, m, s, l) == [t |-> t, n |-> n, k |-> k, m |-> m, s |-> s, l |-> l]
Absent == PyVal("absent", 0, 0, 0, <<>>, <<>>)
PyNone == PyVal("NoneType", 0, 0, 0, <<>>, <<>>)
PyBool(b) == PyVal("bool", IF b THEN 1 ELSE 0, 0, 0, <<>>, <<>>)
PyInt(n) == PyVal("int", n, 0, 0, <<>>, <<>>)
PyFloat(n) == PyVal("float", n, 0, 0, <<>>, <<>>)
PyStr(s) == PyVal("str", 0, 0, 0, s, <<>>)
PyList(l) == PyVal("list", 0, 0, 0, <<>>, l)

\* The result of a call: the exception class raised ("none": it returned)
\* and the value returned.
Returned(v) == [exc |-> "none", val |-> v]
Raised(e) == [exc |-> e, val |-> Absent]

\* float * factor: a zero stays the float 0.0 whatever the factors.
TimesKph(v) == IF v.n = 0 THEN PyFloat(0) ELSE PyVal("float", v.n, v.k + 1, v.m, <<>>, <<>>)
TimesMph(v) == IF v.n = 0 THEN PyFloat(0) ELSE PyVal("float", v.n, v.k, v.m + 1, <<>>, <<>>)

\* Python's == and hash on the values above, as dict and Counter keys use
\* them: numbers are equal across int, float and bool when their values are.
IsNumber(v) == v.t \in {"int", "float", "bool"}
PyEq(a, b) ==
    IF IsNumber(a) /\ IsNumber(b)
    THEN a.n = b.n /\ a.k = b.k /\ a.m = b.m
    ELSE a = b
Hashable(v) == v.t # "list"

----------------------------------------------------------------------------
(* Python str methods, on sequences of characters.                         *)

Whitespace == {" "}
DigitChars == {"0", "1", "2", "3", "4", "5", "6", "7", "8", "9"}
DigitVal(c) ==
    CASE c = "0" -> 0 [] c = "1" -> 1 [] c = "2" -> 2 [] c = "3" -> 3
      [] c = "4" -> 4 [] c = "5" -> 5 [] c = "6" -> 6 [] c = "7" -> 7
      [] c = "8" -> 8 [] c = "9" -> 9

RECURSIVE LStrip(_, _)
LStrip(s, cs) == IF s # <<>> /\ Head(s) \in cs THEN LStrip(Tail(s), cs) ELSE s

RECURSIVE RStrip(_, _)
RStrip(s, cs) ==
    IF s # <<>> /\ s[Len(s)] \in cs THEN RStrip(SubSeq(s, 1, Len(s) - 1), cs) ELSE s

\* str.strip(chars): drops leading and trailing characters of the set.
Strip(s, cs) == RStrip(LStrip(s, cs), cs)

\* sub in s
Contains(s, sub) ==
    \E i \in 1..(Len(s) - Len(sub) + 1) : SubSeq(s, i, i + Len(sub) - 1) = sub

\* s.replace(sub, ''): every occurrence, leftmost first.
RECURSIVE Remove(_, _)
Remove(s, sub) ==
    IF Len(s) < Len(sub) THEN s
    ELSE IF SubSeq(s, 1, Len(sub)) = sub
         THEN Remove(SubSeq(s, Len(sub) + 1, Len(s)), sub)
         ELSE <<Head(s)>> \o Remove(Tail(s), sub)

\* s.split(c), which s.rsplit(c) equals when no maxsplit is given.
RECURSIVE Split(_, _)
Split(s, c) ==
    IF \A i \in 1..Len(s) : s[i] # c THEN <<s>>
    ELSE LET i == CHOOSE j \in 1..Len(s) : s[j] = c /\ \A h \in 1..(j - 1) : s[h] # c
         IN <<SubSeq(s, 1, i - 1)>> \o Split(SubSeq(s, i + 1, Len(s)), c)

\* sep.join(items)
RECURSIVE Join(_, _)
Join(items, sep) ==
    IF items = <<>> THEN <<>>
    ELSE IF Len(items) = 1 THEN items[1]
    ELSE items[1] \o sep \o Join(Tail(items), sep)

RECURSIVE Decimal(_)
Decimal(ds) == IF ds = <<>> THEN 0 ELSE 10 * Decimal(SubSeq(ds, 1, Len(ds) - 1)) + DigitVal(ds[Len(ds)])

\* int(s) and float(s) of a str over digits, spaces, commas and letters:
\* surrounding whitespace is dropped, what is left must be digits.
IsDecimal(s) == s # <<>> /\ \A i \in 1..Len(s) : s[i] \in DigitChars
IntOfStr(s) ==
    LET t == Strip(s, Whitespace)
    IN IF IsDecimal(t) THEN Returned(PyInt(Decimal(t))) ELSE Raised("ValueError")
FloatOfStr(s) ==
    LET t == Strip(s, Whitespace)
    IN IF IsDecimal(t) THEN Returned(PyFloat(Decimal(t))) ELSE Raised("ValueError")

\* float(x) as mph2kts and kph2kts call it.
FloatOf(x) ==
    CASE x.t = "str" -> FloatOfStr(x.s)
      [] x.t \in {"int", "bool"} -> Returned(PyFloat(x.n))
      [] x.t = "float" -> Returned(x)
      [] OTHER -> Raised("TypeError")

----------------------------------------------------------------------------
(* utils.py: unit conversion.                                              *)

mph2kts(mph) ==
    LET f == FloatOf(mph) IN IF f.exc = "none" THEN Returned(TimesMph(f.val)) ELSE f

kph2kts(kph) ==
    LET f == FloatOf(kph) IN IF f.exc = "none" THEN Returned(TimesKph(f.val)) ELSE f

MphMarker == <<"m", "p", "h">>
SpaceMph == <<" ", "m", "p", "h">>

SeqMax(ns) == CHOOSE x \in {ns[i] : i \in 1..Len(ns)} : \A j \in 1..Len(ns) : ns[j] <= x

\* Variant: isinstance(spdlim, (float, int)), which a bool passes.
IsNumericType_Bool(v) == v.t \in {"float", "int", "bool"}
\* type(spdlim) in [float, int]: the exact type, so a bool is not one.
IsNumericType(v) == v.t \in {"float", "int"}

spdlim_ox2bs(spdlim) ==
    IF spdlim.t = "str" /\ Contains(spdlim.s, MphMarker)
    THEN LET single == IntOfStr(Strip(spdlim.s, {"m", "p", "h"}))
         IN IF single.exc = "none" THEN mph2kts(single.val)
            ELSE LET parts == Split(spdlim.s, ",")
                     ints == [i \in 1..Len(parts) |->
                                 IntOfStr(Remove(Strip(parts[i], Whitespace), SpaceMph))]
                 IN IF \E i \in 1..Len(parts) : ints[i].exc # "none"
                    THEN Raised("ValueError")
                    ELSE mph2kts(PyInt(SeqMax([i \in 1..Len(parts) |-> ints[i].val.n])))
    ELSE IF IsNumericType(spdlim) THEN kph2kts(spdlim)
    ELSE IF spdlim.t = "str"
         THEN LET parts == Split(spdlim.s, ",") IN kph2kts(PyStr(parts[Len(parts)]))
    ELSE Raised("TypeError")

----------------------------------------------------------------------------
(* Graphs.  G.edges in iteration order is a sequence of edge records       *)
(* [highway, maxspeed, maxspeed_kts, geometry]; an attribute the edge does *)
(* not have is Absent.  A geometry is [path, valid]: the LineString's      *)
(* points, and whether the geometry library can process it.  A path <<>>   *)
(* is an edge without a geometry attribute (a straight segment between its *)
(* end nodes, which lie at PtA and PtC).                                   *)

PtA == <<0, 0>>
PtB == <<1, 0>>
PtC == <<2, 0>>
PtD == <<1, 1>>

Edge(h, s, kts, g) == [highway |-> h, maxspeed |-> s, maxspeed_kts |-> kts, geometry |-> g]
Geometry(path, valid) == [path |-> path, valid |-> valid]

HasMaxspeed(e) == e.maxspeed.t # "absent"

\* G.edges[edge].get('highway'): None when the edge has no highway.
HighwayKey(e) == IF e.highway.t = "absent" THEN PyNone ELSE e.highway

Min(S) == CHOOSE x \in S : \A y \in S : x <= y

\* The raw speeds, in edge order, of the edges that have 'maxspeed' and
\* whose highway is one of ks.
RECURSIVE SpeedSamples(_, _)
SpeedSamples(g, ks) ==
    IF g = <<>> THEN <<>>
    ELSE (IF HasMaxspeed(Head(g)) /\ HighwayKey(Head(g)) \in ks
          THEN <<Head(g).maxspeed>> ELSE <<>>) \o SpeedSamples(Tail(g), ks)

\* How often Counter counts v in speed_list.
Count(speed_list, v) == Cardinality({i \in 1..Len(speed_list) : PyEq(speed_list[i], v)})

\* Variant: the first speed of the list, whatever its count.
most_common_speed_First(speed_list) ==
    IF speed_list = <<>> THEN Raised("IndexError")
    ELSE Returned(speed_list[1])
\* Counter(speed_list).most_common(1)[0][0]: the key with the highest count
\* that was inserted first; [] has no element 0.
most_common_speed(speed_list) ==
    IF \E i \in 1..Len(speed_list) : ~Hashable(speed_list[i]) THEN Raised("TypeError")
    ELSE IF speed_list = <<>> THEN Raised("IndexError")
    ELSE LET top == {i \in 1..Len(speed_list) :
                        \A j \in 1..Len(speed_list) :
                            Count(speed_list, speed_list[j]) <= Count(speed_list, speed_list[i])}
         IN Returned(speed_list[Min(top)])

\* Variant: most_common_speed_dict.get(highway_type), None without a bucket.
selected_spd_NoDefault(buckets, g, highway_type, general) ==
    IF highway_type \in buckets
    THEN most_common_speed(SpeedSamples(g, {highway_type})).val
    ELSE PyNone
\* most_common_speed_dict.get(highway_type, general_most_common_speed)
selected_spd(buckets, g, highway_type, general) ==
    IF highway_type \in buckets
    THEN most_common_speed(SpeedSamples(g, {highway_type})).val
    ELSE general

\* add_missing_spd(G): the exception raised ("none": it returned G) and G as
\* the call leaves it (G is changed in place, also when a later edge raises).
add_missing_spd(g) ==
    LET idx == 1..Len(g)
        allKeys == {HighwayKey(g[i]) : i \in idx}
        buckets == {HighwayKey(g[i]) : i \in {j \in idx : HasMaxspeed(g[j])}}
        all_speeds == SpeedSamples(g, allKeys)
        general == most_common_speed(all_speeds)
        \* second loop: dict.get hashes the key of each edge without maxspeed
        unhashable == {i \in idx : ~HasMaxspeed(g[i]) /\ ~Hashable(HighwayKey(g[i]))}
        stop == IF unhashable = {} THEN Len(g) + 1 ELSE Min(unhashable)
    IN  IF \E h \in buckets : ~Hashable(h) THEN [exc |-> "TypeError", G |-> g]
        ELSE IF \E h \in buckets : most_common_speed(SpeedSamples(g, {h})).exc # "none"
        THEN [exc |-> "TypeError", G |-> g]
        ELSE IF general.exc # "none" THEN [exc |-> general.exc, G |-> g]
        ELSE [exc |-> IF unhashable = {} THEN "none" ELSE "TypeError",
              G |-> [i \in idx |->
                       IF ~HasMaxspeed(g[i]) /\ i < stop
                       THEN [g[i] EXCEPT !.maxspeed =
                                selected_spd(buckets, g, HighwayKey(g[i]), general.val)]
                       ELSE g[i]]]

\* Variant: the knots value written over the raw 'maxspeed' as well.
SetKts_Overwrite(e, kts) == [e EXCEPT !.maxspeed_kts = kts, !.maxspeed = kts]
\* data['maxspeed_kts'] = maxspeed_kts
SetKts(e, kts) == [e EXCEPT !.maxspeed_kts = kts]

\* One iteration of spd_ox2bs's loop: data.get('maxspeed', None) is None for
\* an edge without the attribute and for an edge whose attribute is None.
EdgeKts(e) ==
    IF e.maxspeed.t \in {"absent", "NoneType"} THEN Raised("AttributeError")
    ELSE spdlim_ox2bs(e.maxspeed)

\* spd_ox2bs(G): edges before the first one that raises keep their new
\* 'maxspeed_kts'.
spd_ox2bs(g) ==
    LET idx == 1..Len(g)
        bad == {i \in idx : EdgeKts(g[i]).exc # "none"}
        stop == IF bad = {} THEN Len(g) + 1 ELSE Min(bad)
    IN  [exc |-> IF bad = {} THEN "none" ELSE EdgeKts(g[stop]).exc,
         G |-> [i \in idx |-> IF i < stop THEN SetKts(g[i], EdgeKts(g[i]).val) ELSE g[i]]]

----------------------------------------------------------------------------
(* utils.py: simplify_graph.                                               *)

\* ox.graph_to_gdfs gives an edge without a geometry attribute the straight
\* line between its end nodes.
FillGeometry(geom) ==
    IF geom.path = <<>> THEN Geometry(<<PtA, PtC>>, geom.valid) ELSE geom

Collinear(p, q, r) == (q[1] - p[1]) * (r[2] - p[2]) = (q[2] - p[2]) * (r[1] - p[1])

\* geom.simplify(tol, preserve_topology=True) on paths of up to three points
\* with integer coordinates: the end points stay, a middle point on the
\* line between them goes (any other is farther than tol = 0.0001 away).
Simplified(path) ==
    IF Len(path) = 3 /\ Collinear(path[1], path[2], path[3])
    THEN <<path[1], path[3]>>
    ELSE path

\* ','.join(map(str, x)) if isinstance(x, list) else x
Flatten(v) == IF v.t = "list" THEN PyStr(Join(v.l, <<",">>)) ELSE v

\* ox.graph_from_gdfs keeps the attributes that are lists or not null.
DropNull(v) == IF v.t = "NoneType" THEN Absent ELSE v

GpkgLayers == {"original_edges", "edges 0.0001", "nodes"}

FlatEdge(e) ==
    Edge(Flatten(e.highway), Flatten(e.maxspeed), Flatten(e.maxspeed_kts),
         FillGeometry(e.geometry))

\* Variant: a simplify_graph that keeps the original path of an edge the geometry
\* library fails on.
simplify_graph_Retain(g, gpkg_file) ==
    [exc |-> "none",
     G |-> [i \in 1..Len(g) |->
              LET e == FlatEdge(g[i])
              IN Edge(DropNull(e.highway), DropNull(e.maxspeed), DropNull(e.maxspeed_kts),
                      IF e.geometry.valid
                      THEN Geometry(Simplified(e.geometry.path), TRUE)
                      ELSE e.geometry)],
     layers |-> IF gpkg_file THEN GpkgLayers ELSE {}]

\* simplify_graph(G, gpkg_file=gpkg_file) with the default tol: the exception
\* raised, the graph returned (G_mod; the argument itself is not changed) and
\* the layers written.
simplify_graph(g, gpkg_file) ==
    LET gdf_edges == [i \in 1..Len(g) |-> FlatEdge(g[i])]
    IN  IF \E i \in 1..Len(g) : ~gdf_edges[i].geometry.valid
        THEN [exc |-> "GEOSException", G |-> g, layers |-> {}]
        ELSE [exc |-> "none",
              G |-> [i \in 1..Len(g) |->
                       Edge(DropNull(gdf_edges[i].highway),
                            DropNull(gdf_edges[i].maxspeed),
                            DropNull(gdf_edges[i].maxspeed_kts),
                            Geometry(Simplified(gdf_edges[i].geometry.path), TRUE))],
              layers |-> IF gpkg_file THEN GpkgLayers ELSE {}]

----------------------------------------------------------------------------
(* utils.py: get_city_from_bbox.  A response of the geocoding service is   *)
(* [kind, raw, address]: kind is the exception geolocator.reverse raised,  *)
(* "None" (nothing found) or "Location"; raw is "empty" ({}), "noaddress"  *)
(* (no 'address' key) or "address"; address gives each field its text,     *)
(* "" when the field is not there.                                         *)

NoCity == ""
PlaceFields == <<"city", "town", "village", "county">>
Address(c, t, v, cy) == [city |-> c, town |-> t, village |-> v, county |-> cy]
NoAddress == Address("", "", "", "")
Response(kind, raw, address) == [kind |-> kind, raw |-> raw, address |-> address]

\* GeocoderTimedOut and GeocoderServiceError with its subclasses are what
\* the except clause catches.
GeocoderErrors == {"GeocoderTimedOut", "GeocoderServiceError", "GeocoderUnavailable"}

\* center_lat, center_lon, doubled.
Center(b) == <<b.north + b.south, b.east + b.west>>

\* Variant: town before city.
PreferredPlace_TownFirst(address) ==
    IF address.town # "" THEN address.town
    ELSE IF address.city # "" THEN address.city
    ELSE IF address.village # "" THEN address.village
    ELSE address.county
\* address.get('city') or address.get('town') or address.get('village')
\*     or address.get('county')
PreferredPlace(address) ==
    IF address.city # "" THEN address.city
    ELSE IF address.town # "" THEN address.town
    ELSE IF address.village # "" THEN address.village
    ELSE address.county

\* Variant: a service error reported as CityNotFoundError.
OnGeocoderError_NotFound(e) == [exc |-> "CityNotFoundError", city |-> NoCity]
\* except (GeocoderTimedOut, GeocoderServiceError) as e: raise Exception(...)
OnGeocoderError(e) == [exc |-> "Exception", city |-> NoCity]

\* get_city_from_bbox once geolocator.reverse has answered r.
get_city_from_bbox(r) ==
    IF r.kind \in GeocoderErrors THEN OnGeocoderError(r.kind)
    ELSE IF r.kind # "Location" /\ r.kind # "None" THEN [exc |-> r.kind, city |-> NoCity]
    ELSE IF r.kind = "Location" /\ r.raw # "empty"
            /\ PreferredPlace(IF r.raw = "address" THEN r.address ELSE NoAddress) # ""
    THEN [exc |-> "none", city |-> PreferredPlace(r.address)]
    ELSE [exc |-> "CityNotFoundError", city |-> NoCity]

----------------------------------------------------------------------------
(* generate.py: the names line 1 imports from utils, and the names         *)
(* utils.py defines.                                                       *)

ImportedNames == {"add_missing_spd", "simplify_graph", "get_city_from_bbox", "add_spds"}
UtilsNames ==
    {"add_missing_spd", "spd_ox2bs", "spdlim_ox2bs", "most_common_speed",
     "simplify_graph", "mph2kts", "kph2kts", "CityNotFoundError",
     "get_city_from_bbox", "ox", "Counter", "Nominatim", "GeocoderTimedOut",
     "GeocoderServiceError"}

NoFile == [file |-> <<>>, graph |-> <<>>]

----------------------------------------------------------------------------
(* Inputs.                                                                 *)

S30 == <<"3", "0">>
S35 == <<"3", "5">>
S40 == <<"4", "0">>
S50 == <<"5", "0">>
S60 == <<"6", "0">>
Residential == PyStr(<<"residential">>)
Primary == PyStr(<<"primary">>)

\* Every sequence over S of at least lo and at most hi elements.
SeqsOf(S, lo, hi) == UNION {[1..n -> S] : n \in lo..hi}

\* A raw OSM maxspeed string is described by its comma-separated parts, each
\* a number and the unit marker written after it: none (kph), " mph", or
\* "mph" without the space.
PartNums == {30, 35, 40, 50, 60}
Markers == {<<>>, SpaceMph, MphMarker}
DigitsOf(n) ==
    CASE n = 30 -> S30 [] n = 35 -> S35 [] n = 40 -> S40 [] n = 50 -> S50 [] n = 60 -> S60
Parts == [num : PartNums, marker : Markers]
StrDescs == SeqsOf(Parts, 1, MaxParts)
RenderStr(d) == Join([i \in 1..Len(d) |-> DigitsOf(d[i].num) \o d[i].marker], <<",">>)

\* The arguments of the direct calls of spdlim_ox2bs.
DirectArgs ==
    {PyStr(RenderStr(d)) : d \in StrDescs}
    \cup {PyInt(n) : n \in {0, 50}} \cup {PyFloat(50)}
    \cup {PyBool(TRUE), PyBool(FALSE), PyNone, PyList(<<S30, S50>>)}

StraightLine == Geometry(<<>>, TRUE)

\* Graphs for add_missing_spd.
InferEdges ==
    {Edge(h, s, Absent, StraightLine) :
        h \in {Absent, Residential, Primary}, s \in {Absent, PyInt(30), PyInt(50)}}
InferGraphs == SeqsOf(InferEdges, 0, MaxEdgesInfer)

\* Graphs for spd_ox2bs.
NormEdges ==
    {Edge(Residential, s, Absent, StraightLine) :
        s \in {Absent, PyNone, PyBool(TRUE), PyInt(50), PyStr(S30),
               PyStr(S35 \o SpaceMph), PyList(<<S30, S50>>)}}
NormGraphs == SeqsOf(NormEdges, 0, MaxEdgesNorm)

\* Graphs for simplify_graph.
SimplifyEdges ==
    {Edge(h, s, Absent, geom) :
        h \in {Residential, PyList(<<<<"residential">>, <<"primary">>>>)},
        s \in {Absent, PyNone, PyStr(S30), PyList(<<S30 \o SpaceMph, S40 \o SpaceMph>>)},
        geom \in {StraightLine, Geometry(<<PtA, PtC>>, TRUE), Geometry(<<PtA, PtB, PtC>>, TRUE),
                  Geometry(<<PtA, PtD, PtC>>, TRUE), Geometry(<<PtA, PtB, PtC>>, FALSE)}}
SimplifyGraphs == SeqsOf(SimplifyEdges, 1, MaxEdgesSimplify)

\* Graphs ox.graph_from_bbox hands to generate_graph.
BodyEdges ==
    {Edge(h, s, Absent, geom) :
        h \in {Absent, Residential},
        s \in {Absent, PyStr(S30), PyStr(S35 \o SpaceMph), PyBool(TRUE)},
        geom \in {StraightLine, Geometry(<<PtA, PtB, PtC>>, FALSE)}}
BodyGraphs == SeqsOf(BodyEdges, 1, MaxEdgesBody)

\* Bounding boxes, and the answers of the geocoding service.
Coords == 0..MaxCoord
Boxes == [north : Coords, south : Coords, east : Coords, west : Coords]
PlaceNames == {"", "Delft", "Buffalo"}
Addresses == [city : PlaceNames, town : PlaceNames, village : PlaceNames, county : PlaceNames]
Responses ==
    {Response(k, "empty", NoAddress) : k \in GeocoderErrors \cup {"ValueError", "None"}}
    \cup {Response("Location", raw, NoAddress) : raw \in {"empty", "noaddress"}}
    \cup {Response("Location", "address", a) : a \in Addresses}
BodyResponses ==
    {Response("GeocoderTimedOut", "empty", NoAddress), Response("None", "empty", NoAddress),
     Response("Location", "address", NoAddress),
     Response("Location", "address", Address("", "Delft", "", "Buffalo"))}

Unasked == Response("unasked", "empty", NoAddress)
ZeroBox == [north |-> 0, south |-> 0, east |-> 0, west |-> 0]

----------------------------------------------------------------------------
(* The state before anything ran: each specification below sets what it    *)
(* starts from and leaves the rest as here.                                *)

Idle(names) ==
    /\ "bbox" \in names \/ bbox = ZeroBox
    /\ "arg" \in names \/ arg = Absent
    /\ "G" \in names \/ G = <<>>
    /\ ret = Raised("none")
    /\ G0 = <<>>
    /\ err = "none"
    /\ query = <<0, 0>>
    /\ resp = Unasked
    /\ reverseCalls = 0
    /\ city = NoCity
    /\ gpkg = {}
    /\ saved = NoFile
    /\ completed = <<>>
    /\ normRuns = 0

----------------------------------------------------------------------------
(* SpecNorm: spdlim_ox2bs called on a value, spd_ox2bs called on a graph   *)
(* (again and again).                                                      *)

InitNorm ==
    /\ \/ pc = "direct" /\ arg \in DirectArgs /\ G = <<>>
       \/ pc = "graph" /\ arg = Absent /\ G \in NormGraphs
    /\ Idle({"arg", "G"})

CallSpdlim ==
    /\ pc = "direct"
    /\ ret' = spdlim_ox2bs(arg)
    /\ pc' = "direct_done"
    /\ UNCHANGED <<bbox, arg, G, G0, err, query, resp, reverseCalls, city, gpkg, saved,
                   completed, normRuns>>

CallSpdOx2bs ==
    /\ pc = "graph"
    /\ normRuns < MaxNormRuns
    /\ LET r == spd_ox2bs(G)
       IN G' = r.G /\ err' = r.exc
    /\ G0' = G
    /\ normRuns' = normRuns + 1
    /\ UNCHANGED <<pc, bbox, arg, ret, query, resp, reverseCalls, city, gpkg, saved, completed>>

NextNorm == CallSpdlim \/ CallSpdOx2bs
SpecNorm == InitNorm /\ [][NextNorm]_vars

----------------------------------------------------------------------------
(* SpecInfer: add_missing_spd called on a graph.                           *)

InitInfer == pc = "start" /\ G \in InferGraphs /\ Idle({"G"})

CallAddMissingSpd ==
    /\ pc = "start"
    /\ LET r == add_missing_spd(G)
       IN G' = r.G /\ err' = r.exc
    /\ G0' = G
    /\ pc' = "done"
    /\ UNCHANGED <<bbox, arg, ret, query, resp, reverseCalls, city, gpkg, saved, completed,
                   normRuns>>

NextInfer == CallAddMissingSpd
SpecInfer == InitInfer /\ [][NextInfer]_vars

----------------------------------------------------------------------------
(* SpecSimplify: G = simplify_graph(G, gpkg_file=...).                      *)

InitSimplify == pc = "start" /\ G \in SimplifyGraphs /\ Idle({"G"})

CallSimplifyGraph ==
    /\ pc = "start"
    /\ \E gpkg_file \in BOOLEAN :
          LET r == simplify_graph(G, gpkg_file)
          IN G' = r.G /\ err' = r.exc /\ gpkg' = r.layers
    /\ G0' = G
    /\ pc' = "done"
    /\ UNCHANGED <<bbox, arg, ret, query, resp, reverseCalls, city, saved, completed, normRuns>>

NextSimplify == CallSimplifyGraph
SpecSimplify == InitSimplify /\ [][NextSimplify]_vars

----------------------------------------------------------------------------
(* SpecCity: get_city_from_bbox, in two steps: up to the answer of         *)
(* geolocator.reverse, and from there to the return or the raise.          *)

InitCity == pc = "start" /\ bbox \in Boxes /\ Idle({"bbox"})

GeocoderReverse ==
    /\ pc = "start"
    /\ query' = Center(bbox)
    /\ \E r \in Responses : resp' = r
    /\ reverseCalls' = reverseCalls + 1
    /\ pc' = "answered"
    /\ UNCHANGED <<bbox, arg, ret, G, G0, err, city, gpkg, saved, completed, normRuns>>

GetCityFinish ==
    /\ pc = "answered"
    /\ LET r == get_city_from_bbox(resp)
       IN city' = r.city /\ err' = r.exc
    /\ pc' = "done"
    /\ UNCHANGED <<bbox, arg, ret, G, G0, query, resp, reverseCalls, gpkg, saved, completed,
                   normRuns>>

NextCity == GeocoderReverse \/ GetCityFinish
SpecCity == InitCity /\ [][NextCity]_vars

----------------------------------------------------------------------------
(* Spec: the generate-graph console script (graph_gen.generate:main) run   *)
(* with four coordinates.  Loading graph_gen.generate executes its line 1: *)
(* utils.py is executed, then each imported name is looked up in it.       *)

Init == pc = "start" /\ bbox \in Boxes /\ Idle({"bbox"})

\* from .utils import ...: utils.py runs to its end and defines its names.
LoadUtils ==
    /\ pc = "start"
    /\ pc' = "utils_loaded"
    /\ UNCHANGED <<bbox, arg, ret, G, G0, err, query, resp, reverseCalls, city, gpkg, saved,
                   completed, normRuns>>

\* ... import add_missing_spd, simplify_graph, get_city_from_bbox, add_spds:
\* a name utils does not define raises ImportError and the process exits;
\* otherwise main() parses the arguments and calls generate_graph.
BindImports ==
    /\ pc = "utils_loaded"
    /\ IF ImportedNames \subseteq UtilsNames
       THEN pc' = "L20" /\ err' = err
       ELSE pc' = "exited" /\ err' = "ImportError"
    /\ UNCHANGED <<bbox, arg, ret, G, G0, query, resp, reverseCalls, city, gpkg, saved,
                   completed, normRuns>>

Next == LoadUtils \/ BindImports
Spec == Init /\ [][Next]_vars

----------------------------------------------------------------------------
(* SpecBody: the body of generate_graph, from its first statement, with    *)
(* the names of line 1 bound.  add_spds, which utils.py does not define,   *)
(* stands for the unit normaliser.                                         *)

add_spds(g) == spd_ox2bs(g)

Stages == <<"place", "simplify", "infer", "normalize", "traveltime">>

\* Variant: an exception is swallowed and the next line runs.
AfterStage_Swallow(exc, stage, next) ==
    /\ pc' = next
    /\ err' = IF exc = "none" THEN err ELSE exc
    /\ completed' = IF exc = "none" THEN Append(completed, stage) ELSE completed
\* One statement of generate_graph has returned or raised exc: an exception
\* leaves generate_graph (it has no try), otherwise the next line runs.
AfterStage(exc, stage, next) ==
    IF exc = "none"
    THEN pc' = next /\ err' = err /\ completed' = Append(completed, stage)
    ELSE pc' = "exited" /\ err' = exc /\ completed' = completed

InitBody == pc = "L20" /\ bbox = ZeroBox /\ Idle({})

\* line 20: G = ox.graph_from_bbox(bbox=lims, network_type='drive')
GraphFromBbox ==
    /\ pc = "L20"
    /\ G' \in BodyGraphs
    /\ pc' = "L21"
    /\ UNCHANGED <<bbox, arg, ret, G0, err, query, resp, reverseCalls, city, gpkg, saved,
                   completed, normRuns>>

\* line 21: city = get_city_from_bbox(north, south, east, west)
PlaceStage ==
    /\ pc = "L21"
    /\ query' = Center(bbox)
    /\ reverseCalls' = reverseCalls + 1
    /\ \E r \in BodyResponses :
          /\ resp' = r
          /\ city' = get_city_from_bbox(r).city
          /\ AfterStage(get_city_from_bbox(r).exc, "place", "L22")
    /\ UNCHANGED <<bbox, arg, ret, G, G0, gpkg, saved, normRuns>>

\* line 22: G = simplify_graph(G)
SimplifyStage ==
    /\ pc = "L22"
    /\ LET r == simplify_graph(G, FALSE)
       IN G' = r.G /\ gpkg' = r.layers /\ AfterStage(r.exc, "simplify", "L23")
    /\ G0' = G
    /\ UNCHANGED <<bbox, arg, ret, query, resp, reverseCalls, city, saved, normRuns>>

\* line 23: G = add_missing_spd(G)
InferStage ==
    /\ pc = "L23"
    /\ LET r == add_missing_spd(G)
       IN G' = r.G /\ AfterStage(r.exc, "infer", "L24")
    /\ G0' = G
    /\ UNCHANGED <<bbox, arg, ret, query, resp, reverseCalls, city, gpkg, saved, normRuns>>

\* line 24: G = add_spds(G)
NormalizeStage ==
    /\ pc = "L24"
    /\ LET r == add_spds(G)
       IN G' = r.G /\ AfterStage(r.exc, "normalize", "L25")
    /\ G0' = G
    /\ normRuns' = normRuns + 1
    /\ UNCHANGED <<bbox, arg, ret, query, resp, reverseCalls, city, gpkg, saved>>

\* line 25: G = ox.routing.add_edge_travel_times(G), which returns the graph
\* or raises (KeyError when an edge lacks 'length' or 'speed_kph').
TravelTimeStage ==
    /\ pc = "L25"
    /\ \E exc \in {"none", "KeyError"} : AfterStage(exc, "traveltime", "L26")
    /\ UNCHANGED <<bbox, arg, ret, G, G0, query, resp, reverseCalls, city, gpkg, saved,
                   normRuns>>

\* lines 26-28: graph_file = f'{city}.graphml'; ox.save_graphml(G, graph_file)
SaveStage ==
    /\ pc = "L26"
    /\ saved' = [file |-> <<city, ".graphml">>, graph |-> G]
    /\ pc' = "returned"
    /\ UNCHANGED <<bbox, arg, ret, G, G0, err, query, resp, reverseCalls, city, gpkg,
                   completed, normRuns>>

NextBody ==
    \/ GraphFromBbox \/ PlaceStage \/ SimplifyStage \/ InferStage
    \/ NormalizeStage \/ TravelTimeStage \/ SaveStage
SpecBody == InitBody /\ [][NextBody]_vars

----------------------------------------------------------------------------
(* Properties.                                                             *)

\* The four failure kinds: unrecognized speed format (TypeError), missing
\* required attribute (AttributeError), geocoding service failure
\* (Exception), place not determinable (CityNotFoundError).
StageFailures == {"TypeError", "AttributeError", "Exception", "CityNotFoundError"}

\* A float that is a number of kph or of mph converted to knots once.
IsKnots(v) == v.t = "float" /\ (v.n = 0 \/ v.k + v.m = 1)

AllInKnots(g) == \A i \in 1..Len(g) : IsKnots(g[i].maxspeed_kts)

C1_IfBound == saved # NoFile => saved.graph # <<>> /\ AllInKnots(saved.graph)

\* The edges of g that have 'maxspeed' and the highway value h.
SamplesOf(g, h) == {i \in 1..Len(g) : HasMaxspeed(g[i]) /\ HighwayKey(g[i]) = h}
AllSamples(g) == {i \in 1..Len(g) : HasMaxspeed(g[i])}
Freq(g, I, v) == Cardinality({i \in I : PyEq(g[i].maxspeed, v)})
IsMostFrequent(g, I, v) ==
    /\ \E i \in I : g[i].maxspeed = v
    /\ \A i \in I : Freq(g, I, g[i].maxspeed) <= Freq(g, I, v)

\* C2: when add_missing_spd returns, every edge that lacked 'maxspeed' has a
\* most frequent raw maxspeed of the edges with its highway value that had
\* one, or, when none of them had one, a most frequent raw maxspeed of all
\* the edges that had one; the edges that had 'maxspeed' are as they were.
C2_AssignsMostFrequent ==
    pc = "done" /\ err = "none" =>
        /\ Len(G) = Len(G0)
        /\ \A i \in 1..Len(G0) :
              IF HasMaxspeed(G0[i]) THEN G[i] = G0[i]
              ELSE LET same == SamplesOf(G0, HighwayKey(G0[i]))
                       pool == IF same # {} THEN same ELSE AllSamples(G0)
                   IN /\ IsMostFrequent(G0, pool, G[i].maxspeed)
                      /\ G[i] = [G0[i] EXCEPT !.maxspeed = G[i].maxspeed]

\* The bucket [30, 30, 50] of "residential" gave a residential edge without
\* 'maxspeed' the value 30, and the samples [50, 30, 30] did as well.
C2_Witness ==
    /\ pc = "done" /\ err = "none" /\ Len(G0) = 4
    /\ \A i \in 1..4 : G0[i].highway = Residential
    /\ \/ <<G0[1].maxspeed, G0[2].maxspeed, G0[3].maxspeed>> = <<PyInt(30), PyInt(30), PyInt(50)>>
       \/ <<G0[1].maxspeed, G0[2].maxspeed, G0[3].maxspeed>> = <<PyInt(50), PyInt(30), PyInt(30)>>
    /\ ~HasMaxspeed(G0[4])
    /\ G[4].maxspeed = PyInt(30)

\* C3: when add_missing_spd returns, every edge has a 'maxspeed' that is not
\* missing, the edges without 'highway' and the edges whose highway value
\* has no sample included.
C3_NoMissingSpeed ==
    pc = "done" /\ err = "none" =>
        \A i \in 1..Len(G) : G[i].maxspeed.t \notin {"absent", "NoneType"}

\* An edge with neither 'highway' nor 'maxspeed' and a primary edge without
\* 'maxspeed', where no primary edge had one, both got a speed.
C3_Witness ==
    /\ pc = "done" /\ err = "none"
    /\ \E i, j \in 1..Len(G0) :
          /\ G0[i].highway = Absent /\ ~HasMaxspeed(G0[i])
          /\ G0[j].highway = Primary /\ ~HasMaxspeed(G0[j])
          /\ SamplesOf(G0, Primary) = {}
          /\ HasMaxspeed(G[i]) /\ HasMaxspeed(G[j])

\* The reference of C4 on a described string: with an mph marker the
\* maximum of the parts times 0.868976242, without one the last part times
\* 0.539956803.
RefKnots(d) ==
    IF \E i \in 1..Len(d) : d[i].marker # <<>>
    THEN Returned(PyVal("float", SeqMax([i \in 1..Len(d) |-> d[i].num]), 0, 1, <<>>, <<>>))
    ELSE Returned(PyVal("float", d[Len(d)].num, 1, 0, <<>>, <<>>))
RefNumber(v) ==
    Returned(IF v.n = 0 THEN PyFloat(0) ELSE PyVal("float", v.n, 1, 0, <<>>, <<>>))

\* C4: spdlim_ox2bs agrees with the reference on every raw value: a number
\* n gives n * 0.539956803, a string with the mph marker the maximum of its
\* comma-separated numbers * 0.868976242, a string without it the last of
\* its comma-separated numbers * 0.539956803.
C4_AgreesWithReference ==
    pc = "direct_done" =>
        /\ arg.t \in {"int", "float"} => ret = RefNumber(arg)
        /\ \A d \in StrDescs : arg = PyStr(RenderStr(d)) => ret = RefKnots(d)

\* C4 on the strings whose mph parts all write the marker after a space, and
\* on the strings of one part: there spdlim_ox2bs agrees with the reference.
C4_SpacedMarker ==
    pc = "direct_done" =>
        /\ arg.t \in {"int", "float"} => ret = RefNumber(arg)
        /\ \A d \in StrDescs :
              /\ arg = PyStr(RenderStr(d))
              /\ Len(d) = 1 \/ \A i \in 1..Len(d) : d[i].marker # MphMarker
              => ret = RefKnots(d)

\* The edges before edge i were converted by the run of spd_ox2bs.
ReachedEdge(i) == \A j \in 1..(i - 1) : G[j].maxspeed_kts.t = "float"

\* C5 (as amended): a value of an unrecognized type raises TypeError and is
\* not coerced: a bool, a list or None handed to spdlim_ox2bs, and a bool or
\* a list that is an edge's 'maxspeed' in spd_ox2bs; an edge whose 'maxspeed'
\* is None raises AttributeError in spd_ox2bs, as an edge without one does.
C5_UnrecognizedTypeRaises ==
    /\ pc = "direct_done" /\ arg.t \in {"bool", "NoneType", "list"} => ret.exc = "TypeError"
    /\ pc = "graph" /\ normRuns >= 1 =>
          \A i \in 1..Len(G) :
              ReachedEdge(i) =>
                  /\ G[i].maxspeed.t \in {"bool", "list"} =>
                        err = "TypeError" /\ G[i].maxspeed_kts = Absent
                  /\ G[i].maxspeed.t \in {"NoneType", "absent"} =>
                        err = "AttributeError" /\ G[i].maxspeed_kts = Absent

\* C5 as stated: also an edge whose 'maxspeed' is None raises TypeError.
C5_NullRaisesTypeError ==
    /\ pc = "direct_done" /\ arg.t \in {"bool", "NoneType", "list"} => ret.exc = "TypeError"
    /\ pc = "graph" /\ normRuns >= 1 =>
          \A i \in 1..Len(G) :
              ReachedEdge(i) /\ G[i].maxspeed.t \in {"bool", "list", "NoneType"} =>
                  err = "TypeError"

\* spd_ox2bs converted the first edge and raised AttributeError on the
\* second, whose 'maxspeed' is None.
C5_Witness ==
    /\ pc = "graph" /\ normRuns = 1 /\ Len(G) = 2
    /\ G[1].maxspeed_kts.t = "float"
    /\ G[2].maxspeed = PyNone
    /\ err = "AttributeError"

\* C6: a run of spd_ox2bs on a graph spd_ox2bs has run on leaves every
\* edge's 'maxspeed_kts' as the run before left it.
C6_SecondRunKeepsKnots ==
    pc = "graph" /\ normRuns >= 2 =>
        /\ Len(G) = Len(G0)
        /\ \A i \in 1..Len(G) : G[i].maxspeed_kts = G0[i].maxspeed_kts

\* Two runs on a graph of two edges, "30" and "35 mph", both converted.
C6_Witness ==
    /\ pc = "graph" /\ normRuns = 2 /\ err = "none" /\ Len(G) = 2
    /\ G[1].maxspeed = PyStr(S30)
    /\ G[1].maxspeed_kts = PyVal("float", 30, 1, 0, <<>>, <<>>)
    /\ G[2].maxspeed = PyStr(S35 \o SpaceMph)
    /\ G[2].maxspeed_kts = PyVal("float", 35, 0, 1, <<>>, <<>>)

\* C7: the graph is persisted only when place resolution, simplification,
\* inference, normalization and travel-time annotation have all returned, in
\* that order, and no stage raised; a stage that raises ends the run with
\* nothing persisted.
C7_SavedOnlyAfterAllStages ==
    /\ saved # NoFile => err = "none" /\ completed = Stages
    /\ err # "none" => pc = "exited" /\ saved = NoFile

\* The normalizer raised the unrecognized-format error after three stages
\* had returned, and the run ended there.
C7_Witness ==
    /\ pc = "exited" /\ err = "TypeError"
    /\ completed = <<"place", "simplify", "infer">>
    /\ saved = NoFile

\* The first of city, town, village, county the address has.
FirstPresent(address) ==
    LET present == {i \in 1..Len(PlaceFields) : address[PlaceFields[i]] # ""}
    IN address[PlaceFields[Min(present)]]

\* C8: for an answer with an address that has at least one of city, town,
\* village, county, get_city_from_bbox returns the first of them, in that
\* order, that the address has.
C8_PlacePriority ==
    /\ pc = "done" /\ resp.kind = "Location" /\ resp.raw = "address"
    /\ \E i \in 1..Len(PlaceFields) : resp.address[PlaceFields[i]] # ""
    => err = "none" /\ city = FirstPresent(resp.address)

\* An address without city, with town, village and county: the town.
C8_Witness ==
    /\ pc = "done"
    /\ resp = Response("Location", "address", Address("", "Delft", "Buffalo", "Buffalo"))
    /\ city = "Delft"

NotDeterminable(r) ==
    \/ r.kind = "None"
    \/ r.kind = "Location" /\ r.raw \in {"empty", "noaddress"}
    \/ r.kind = "Location" /\ r.raw = "address" /\ r.address = NoAddress

\* C9: a timeout or service error of the geocoder ends get_city_from_bbox
\* with Exception, an empty or address-less answer or an address without
\* city, town, village and county with CityNotFoundError; the two classes
\* differ, a failure returns no name, a name returned is one of the
\* address's, and reverse was called once.
C9_TwoFailureConditions ==
    pc = "done" =>
        /\ resp.kind \in {"GeocoderTimedOut", "GeocoderServiceError", "GeocoderUnavailable"}
              => err = "Exception"
        /\ NotDeterminable(resp) => err = "CityNotFoundError"
        /\ err # "none" => city = NoCity
        /\ err = "none" =>
              city # NoCity /\ \E i \in 1..Len(PlaceFields) : city = resp.address[PlaceFields[i]]
        /\ reverseCalls = 1

\* The geocoder timed out and get_city_from_bbox raised Exception.
C9_Witness ==
    pc = "done" /\ resp.kind = "GeocoderTimedOut" /\ err = "Exception" /\ city = NoCity

\* What the simplification of a path is to give.
ExpectedPath(path) ==
    CASE path = <<>> -> <<PtA, PtC>>
      [] path = <<PtA, PtB, PtC>> -> <<PtA, PtC>>
      [] OTHER -> path

AnyInvalid(g) == \E i \in 1..Len(g) : ~g[i].geometry.valid

\* C10 (as amended): a failure of the geometry library on one edge's path
\* leaves simplify_graph as an exception: no graph is returned, no edge is
\* simplified and nothing is written.  Without a failure no edge is dropped
\* and every path is replaced by its simplification, a two-point straight
\* line by itself.
C10_FailurePropagates ==
    pc = "done" =>
        IF AnyInvalid(G0)
        THEN err = "GEOSException" /\ G = G0 /\ gpkg = {}
        ELSE /\ err = "none" /\ Len(G) = Len(G0)
             /\ \A i \in 1..Len(G) :
                   G[i].geometry = Geometry(ExpectedPath(G0[i].geometry.path), TRUE)

\* C10 as stated: the edge the library failed on keeps its path, the other
\* edges are simplified, and simplify_graph returns the graph.
C10_FailedEdgeKeepsPath ==
    pc = "done" /\ AnyInvalid(G0) =>
        /\ err = "none" /\ Len(G) = Len(G0)
        /\ \A i \in 1..Len(G) :
              G[i].geometry.path =
                  IF G0[i].geometry.valid THEN ExpectedPath(G0[i].geometry.path)
                  ELSE G0[i].geometry.path

\* The library failed on the second edge: simplify_graph raised, and the
\* first edge's three collinear points were not simplified.
C10_Witness ==
    /\ pc = "done" /\ err = "GEOSException" /\ Len(G0) = 2
    /\ G0[1].geometry = Geometry(<<PtA, PtB, PtC>>, TRUE)
    /\ ~G0[2].geometry.valid
    /\ G = G0

====
